---- MODULE Spec2Model ----
(***************************************************************************)
(* The poll loop of examples/status_monitoring.py                          *)
(* (monitor_training_progress): a monitor that polls a JSON status         *)
(* artifact written by an external producer, prints a progress line when   *)
(* current_iteration changed and stops on status "completed" / "error".    *)
(*                                                                         *)
(* The state is taken on entry to the loop (line 50): the two header       *)
(* lines of lines 47-48 have been printed already.                         *)
(***************************************************************************)
EXTENDS Integers, Sequences, FiniteSets, TLC

VARIABLES
    artifact,        \* what is at status_file_path (the producer's document)
    producer_done,   \* the producer has written its last document
    last_iteration,  \* the local of line 45
    pc,              \* where the monitor is
    out,             \* the lines printed in the current loop iteration
    update_interval, \* the argument of line 36, in seconds
    sleeps,          \* the sleeps that returned since the last existence check
    printed,         \* the iteration shown by the last status line printed
    duration,        \* the argument of a call of format_duration, in tenths
    formatted        \* what that call returned

vars ==
    << artifact, producer_done, last_iteration, pc, out, update_interval,
       sleeps, printed, duration, formatted >>

\* format_duration is called on durations of 0..MaxTenths tenths of a second
MaxTenths == 36600

\* current_iteration ranges over 0..MaxIter in the documents the producer writes
MaxIter == 1

(***************************************************************************)
(* The documents.                                                          *)
(***************************************************************************)

\* The keys read with status[...] on every rendered poll, in the order in
\* which lines 62-76 read them.
current_iteration_key == "current_iteration"

RenderKeys ==
    << "progress_percentage", "elapsed_time_seconds",
       "estimated_remaining_seconds", "current_splat_count",
       "status", "total_iterations" >>

RequiredKeys == {current_iteration_key} \cup {RenderKeys[i] : i \in 1..Len(RenderKeys)}

\* The values of the status key: the three the producer documents and one
\* the monitor does not know.
StatusValues == {"training", "completed", "error", "paused"}

\* An optional key is absent, JSON null, or holds a value of its type.
Optional == {"absent", "null", "value"}

\* At most this many required keys are left out of one document.
MissingSets == {{}} \cup {{k} : k \in RequiredKeys}

\* The optional keys of the sample document of test_status_feature.py
\* (lines 65-68): no evaluation and no export yet, export_path set.
NoEvalNoExport(o) ==
    /\ o.last_eval_psnr = "null"
    /\ o.last_eval_ssim = "null"
    /\ o.current_export_file = "null"
    /\ o.export_path = "value"

\* A JSON object: the required keys it lacks, the fields that steer the
\* monitor, and the four optional keys.  The values of the other required
\* keys only reach the text of the status line.  The documents that lack a
\* required key are taken with the optional keys of that sample.
Objects ==
    { o \in [ kind : {"object"},
              missing : MissingSets,
              current_iteration : 0..MaxIter,
              status : StatusValues,
              last_eval_psnr : Optional,
              last_eval_ssim : Optional,
              current_export_file : Optional,
              export_path : Optional ] :
        o.missing # {} => NoEvalNoExport(o) }

\* What else can be at the path: nothing, bytes that are no text, text that
\* is no JSON, JSON that is no object.
Absent == [kind |-> "absent"]

NonObjects ==
    { Absent, [kind |-> "undecodable"], [kind |-> "malformed"],
      [kind |-> "nonobject"] }

Contents == NonObjects \cup Objects

(***************************************************************************)
(* format_duration (lines 24-33), on durations counted in tenths of a      *)
(* second; a result is a unit and a number of tenths of that unit.         *)
(***************************************************************************)

\* lines 26 and 28: the thresholds 60 and 3600 seconds, in tenths
Minute == 600
Hour == 36000

\* "{x:.1f}" of x = n / d: the nearest number of tenths; where x lies
\* halfway between two of them the binary quotient decides, either way
OneDecimal(n, d) ==
    LET q == (10 * n) \div d
        r == (10 * n) % d
    IN  IF 2 * r < d THEN {q}
        ELSE IF 2 * r > d THEN {q + 1}
        ELSE {q, q + 1}

Rendered(unit, n, d) == {[unit |-> unit, tenths |-> k] : k \in OneDecimal(n, d)}

\* lines 26-33 with <= written for < at line 26
format_duration_le(secs) ==
    IF secs <= Minute THEN Rendered("s", secs, 10)
    ELSE IF secs < Hour THEN Rendered("m", secs, Minute)
    ELSE Rendered("h", secs, Hour)

\* lines 26-33: the results the call can return
format_duration(secs) ==
    IF secs < Minute THEN Rendered("s", secs, 10)
    ELSE IF secs < Hour THEN Rendered("m", secs, Minute)
    ELSE Rendered("h", secs, Hour)

(***************************************************************************)
(* The lines the monitor prints.                                           *)
(***************************************************************************)

WaitingLine == [line |-> "waiting"]            \* line 54
CorruptedLine == [line |-> "corrupted"]        \* line 108
DisappearedLine == [line |-> "disappeared"]    \* line 110
CompletedLine == [line |-> "completed"]        \* line 99
FailedLine == [line |-> "failed"]              \* line 104
StoppedLine == [line |-> "stopped"]            \* line 117

\* line 112: the notice that names the key of the KeyError
MissingKeyLine(k) == [line |-> "missing_key", key |-> k]

\* line 101: "Final output: {export_path}/{current_export_file}"; a null
\* export_path is printed as the text None
FinalOutputLine(path) == [line |-> "final_output", export_path |-> path]

\* lines 74-93: the status line, with its two optional segments
StatusLine(s, metrics, export) ==
    [ line |-> "status", iter |-> s.current_iteration, status |-> s.status,
      metrics |-> metrics, export |-> export ]

(***************************************************************************)
(* The body of the inner try (lines 58-105) as a function of the document  *)
(* read and of last_iteration.                                             *)
(***************************************************************************)

\* status[k] of a required key raises KeyError when the key is not there
HasKey(s, k) == k \notin s.missing

\* status.get(k): None for an absent key
Get(v) == IF v = "absent" THEN "null" ELSE v

\* x is not None
IsNotNone(v) == v # "null"

\* the truth value of status.get('current_export_file'): None is false, a
\* file name is true
Truthy(v) == v = "value"

\* lines 58-59: open() and json.load() either raise or yield the document
Load(a) ==
    CASE a.kind = "absent" -> "FileNotFoundError"
      [] a.kind = "undecodable" -> "UnicodeDecodeError"
      [] a.kind = "malformed" -> "JSONDecodeError"
      [] OTHER -> "none"

\* line 63 with >= written for !=
IterationChangedGe(current_iter, last) == current_iter >= last

\* line 63
IterationChanged(current_iter, last) == current_iter # last

\* lines 67-76: the first of the keys read that the document lacks
FirstMissing(s, keys) ==
    LET idx == {i \in 1..Len(keys) : ~HasKey(s, keys[i])}
    IN  IF idx = {} THEN "none"
        ELSE keys[CHOOSE i \in idx : \A j \in idx : i <= j]

\* lines 85-88: the metrics segment is entered on last_eval_psnr alone;
\* status['last_eval_ssim'] raises KeyError on an absent key and the format
\* {ssim:.3f} raises TypeError on None
Metrics(s) ==
    IF IsNotNone(Get(s.last_eval_psnr))
    THEN CASE s.last_eval_ssim = "absent" ->
                [exc |-> "KeyError", key |-> "last_eval_ssim", segment |-> FALSE]
           [] s.last_eval_ssim = "null" ->
                [exc |-> "TypeError", key |-> "none", segment |-> FALSE]
           [] OTHER ->
                [exc |-> "none", key |-> "none", segment |-> TRUE]
    ELSE [exc |-> "none", key |-> "none", segment |-> FALSE]

\* lines 91-93
ExportSegment(s) == Truthy(Get(s.current_export_file))

\* lines 98-105: what follows the printed status line
Terminal(s) ==
    IF s.status = "completed"
    THEN IF Truthy(Get(s.current_export_file))
         THEN IF s.export_path = "absent"
              THEN [exit |-> "KeyError", key |-> "export_path",
                    lines |-> <<CompletedLine>>]
              ELSE [exit |-> "break", key |-> "none",
                    lines |-> <<CompletedLine, FinalOutputLine(s.export_path)>>]
         ELSE [exit |-> "break", key |-> "none", lines |-> <<CompletedLine>>]
    ELSE IF s.status = "error"
         THEN [exit |-> "break", key |-> "none", lines |-> <<FailedLine>>]
         ELSE [exit |-> "fallthrough", key |-> "none", lines |-> <<>>]

Outcome(last, lines, exit, key) ==
    [last |-> last, lines |-> lines, exit |-> exit, key |-> key]

\* lines 66-105: the branch taken when the iteration changed; line 64 has
\* assigned last_iteration before any other key is read
Render(s) ==
    LET new == s.current_iteration
        mk == FirstMissing(s, RenderKeys)
        m == Metrics(s)
        t == Terminal(s)
    IN  IF mk # "none" THEN Outcome(new, <<>>, "KeyError", mk)
        ELSE IF m.exc # "none" THEN Outcome(new, <<>>, m.exc, m.key)
        ELSE Outcome(new, <<StatusLine(s, m.segment, ExportSegment(s))>> \o t.lines,
                     t.exit, t.key)

\* lines 58-105
TryBody(a, last) ==
    IF Load(a) # "none" THEN Outcome(last, <<>>, Load(a), "none")
    ELSE IF a.kind # "object" THEN Outcome(last, <<>>, "TypeError", "none")
    ELSE IF ~HasKey(a, current_iteration_key)
         THEN Outcome(last, <<>>, "KeyError", current_iteration_key)
    ELSE IF IterationChanged(a.current_iteration, last) THEN Render(a)
    ELSE Outcome(last, <<>>, "fallthrough", "none")

\* lines 107-112 without the clause of line 107
CaughtWithoutJSONDecodeError == {"FileNotFoundError", "KeyError"}

\* lines 107-112 without the clause of line 109
CaughtWithoutFileNotFoundError == {"JSONDecodeError", "KeyError"}

\* lines 107-112: the exceptions the inner try catches; any other one leaves
\* the function (the outer try catches KeyboardInterrupt only)
Caught == {"JSONDecodeError", "FileNotFoundError", "KeyError"}

\* lines 108, 110, 112: what the except clause that catches it prints
Notice(exit, key) ==
    CASE exit \notin Caught -> <<>>
      [] exit = "JSONDecodeError" -> <<CorruptedLine>>
      [] exit = "FileNotFoundError" -> <<DisappearedLine>>
      [] exit = "KeyError" -> <<MissingKeyLine(key)>>

\* where the loop iteration goes after the try statement
After(exit) ==
    CASE exit = "break" -> "done"
      [] exit = "fallthrough" -> "sleep"
      [] exit \in Caught -> "sleep"
      [] OTHER -> "crashed"

(***************************************************************************)
(* The monitor's steps.                                                    *)
(***************************************************************************)

\* no call of format_duration has returned
NotCalled == [unit |-> "none", tenths |-> 0]

\* lines 44-50: the state on entry to the loop, for a given interval; no
\* status line is printed yet (printed = -1)
Start(interval, d) ==
    /\ artifact = Absent
    /\ producer_done = FALSE
    /\ last_iteration = -1
    /\ pc = "exists"
    /\ out = <<>>
    /\ update_interval = interval
    /\ sleeps = 0
    /\ printed = -1
    /\ duration = d
    /\ formatted = NotCalled

\* the default interval of lines 36 and 133
DefaultInterval == 1

\* the monitor called as documented: with a positive interval
Init == Start(DefaultInterval, 0)

\* lines 53-56: the existence check; an absent file is reported and the
\* iteration goes to its sleep
ExistsCheck ==
    /\ pc = "exists"
    /\ IF artifact.kind = "absent"
       THEN /\ out' = Append(out, WaitingLine)
            /\ pc' = "wait"
       ELSE /\ out' = out
            /\ pc' = "open"
    /\ sleeps' = 0
    /\ UNCHANGED <<artifact, producer_done, last_iteration, update_interval,
                   printed, duration, formatted>>

\* line 95: the iteration the newest status line on the terminal shows,
\* once the lines of a poll are printed
Printed(before, lines) ==
    IF lines # <<>> /\ lines[1].line = "status" THEN lines[1].iter ELSE before

\* line 58 with mode 'w': the file is created or truncated to nothing
OpenedForWriting(a) == [kind |-> "malformed"]

\* line 58: what open(status_file, 'r') leaves at the path
Opened(a) == a

\* lines 58-112: read, parse, render, and the except clauses
ReadAndRender ==
    /\ pc = "open"
    /\ artifact' = Opened(artifact)
    /\ LET r == TryBody(artifact', last_iteration)
       IN  /\ last_iteration' = r.last
           /\ out' = out \o r.lines \o Notice(r.exit, r.key)
           /\ printed' = Printed(printed, r.lines)
           /\ pc' = After(r.exit)
    /\ UNCHANGED <<producer_done, update_interval, sleeps, duration, formatted>>

\* line 56 left out: after the sleep of line 55 control reaches line 58
FallsThroughToOpen == "open"

\* line 56: continue takes the loop back to the existence check
Continue == "exists"

\* line 55 (pc = "wait") or line 114 (pc = "sleep"): time.sleep raises
\* ValueError on a negative length, which nothing catches; otherwise it
\* returns and the next loop iteration starts
Sleep ==
    /\ pc \in {"wait", "sleep"}
    /\ IF update_interval < 0
       THEN /\ pc' = "crashed"
            /\ UNCHANGED <<out, sleeps>>
       ELSE /\ pc' = IF pc = "wait" THEN Continue ELSE "exists"
            /\ out' = <<>>
            /\ sleeps' = sleeps + 1
    /\ UNCHANGED <<artifact, producer_done, last_iteration, update_interval,
                   printed, duration, formatted>>

\* lines 116-117 without the except clause: the interrupt leaves the function
InterruptUncaught ==
    /\ pc \in {"exists", "open", "wait", "sleep"}
    /\ pc' = "crashed"
    /\ UNCHANGED <<artifact, producer_done, last_iteration, out, update_interval,
                   sleeps, printed, duration, formatted>>

\* lines 116-117: KeyboardInterrupt anywhere in the loop.  It arrives between
\* two of the model's steps, or inside lines 58-112: then the poll has run up
\* to some statement, line 64 has assigned last_iteration if the poll got
\* that far, and the first n lines of the poll are printed
Interrupt ==
    /\ pc \in {"exists", "open", "wait", "sleep"}
    /\ pc' = "stopped"
    /\ \/ /\ out' = Append(out, StoppedLine)
          /\ UNCHANGED <<last_iteration, printed>>
       \/ /\ pc = "open"
          /\ LET r == TryBody(artifact, last_iteration)
                 all == r.lines \o Notice(r.exit, r.key)
             IN  \E n \in 0..Len(all) :
                    /\ last_iteration' = r.last
                    /\ out' = Append(out \o SubSeq(all, 1, n), StoppedLine)
                    /\ printed' = Printed(printed, SubSeq(all, 1, n))
    /\ UNCHANGED <<artifact, producer_done, update_interval, sleeps, duration,
                   formatted>>

Monitor == ExistsCheck \/ ReadAndRender \/ Sleep

(***************************************************************************)
(* The producer: it overwrites the artifact whenever it likes, until it    *)
(* has written its last document.  Successive documents differ in one      *)
(* field, or replace a non-object by any document: every document is       *)
(* reachable from every other while the monitor stands still, so the       *)
(* monitor meets every document in every one of its states.                *)
(***************************************************************************)

Rewrites(a) ==
    IF a.kind # "object" THEN Contents \ {a}
    ELSE LET one == {[a EXCEPT !.missing = m] : m \in MissingSets}
                    \cup {[a EXCEPT !.current_iteration = i] : i \in 0..MaxIter}
                    \cup {[a EXCEPT !.status = s] : s \in StatusValues}
                    \cup {[a EXCEPT !.last_eval_psnr = v] : v \in Optional}
                    \cup {[a EXCEPT !.last_eval_ssim = v] : v \in Optional}
                    \cup {[a EXCEPT !.current_export_file = v] : v \in Optional}
                    \cup {[a EXCEPT !.export_path = v] : v \in Optional}
         IN  NonObjects \cup {o \in one : o \in Objects /\ o # a}

ProducerWrite ==
    /\ ~producer_done
    /\ \E c \in Rewrites(artifact) : artifact' = c
    /\ UNCHANGED <<producer_done, last_iteration, pc, out, update_interval,
                   sleeps, printed, duration, formatted>>

\* a valid snapshot: a JSON object with every required key
Valid(a) == a.kind = "object" /\ a.missing = {}

\* the producer's last document reports a terminal status and stays
ProducerFinish ==
    /\ ~producer_done
    /\ Valid(artifact)
    /\ artifact.status \in {"completed", "error"}
    /\ producer_done' = TRUE
    /\ UNCHANGED <<artifact, last_iteration, pc, out, update_interval,
                   sleeps, printed, duration, formatted>>

Next ==
    \/ ExistsCheck
    \/ ReadAndRender
    \/ Sleep
    \/ Interrupt
    \/ ProducerWrite
    \/ ProducerFinish

Spec == Init /\ [][Next]_vars

\* lines 131-139: what --interval (type=float) and a caller can pass, by sign
Intervals == {-1, 0, 1}

\* the monitor called with any interval main() accepts
IntervalInit == \E interval \in Intervals : Start(interval, 0)

IntervalSpec == IntervalInit /\ [][Next]_vars

\* a call of format_duration on any duration of the range
FormatInit == \E d \in 0..MaxTenths : Start(DefaultInterval, d)

\* lines 24-33: the call returns
Format ==
    /\ formatted = NotCalled
    /\ formatted' \in format_duration(duration)
    /\ UNCHANGED <<artifact, producer_done, last_iteration, pc, out,
                   update_interval, sleeps, printed, duration>>

FormatSpec == FormatInit /\ [][Format]_vars

\* the loop runs on as long as nothing stops it, and no interrupt arrives
LiveNext ==
    \/ ExistsCheck
    \/ ReadAndRender
    \/ Sleep
    \/ ProducerWrite
    \/ ProducerFinish

LiveSpec == Init /\ [][LiveNext]_vars /\ WF_vars(Monitor)

TypeOK ==
    /\ artifact \in Contents
    /\ producer_done \in BOOLEAN
    /\ last_iteration \in -1..MaxIter
    /\ pc \in {"exists", "open", "wait", "sleep", "done", "crashed", "stopped"}
    /\ Len(out) <= 4
    /\ update_interval \in Intervals
    /\ sleeps \in 0..2
    /\ printed \in -1..MaxIter
    /\ duration \in 0..MaxTenths

(***************************************************************************)
(* Vocabulary of the properties.                                           *)
(***************************************************************************)

\* the lines a step prints
Emitted == SubSeq(out', Len(out) + 1, Len(out'))

\* how many status lines a sequence of lines holds
StatusLineCount(lines) ==
    Cardinality({i \in 1..Len(lines) : lines[i].line = "status"})

\* the loop is still running
Running == pc \in {"exists", "open", "wait", "sleep"}

\* a poll that reads a valid snapshot
ReadsValid == ReadAndRender /\ Valid(artifact)

\* a poll that reads a JSON object lacking a required key
ReadsIncomplete ==
    ReadAndRender /\ artifact.kind = "object" /\ artifact.missing # {}

(***************************************************************************)
(* C1.  Every poll that reads a valid snapshot whose current_iteration     *)
(* differs from last_iteration prints exactly one status line and leaves   *)
(* last_iteration equal to the snapshot's current_iteration.               *)
(***************************************************************************)
C1_ChangedIterationPrintsOneLine ==
    [][ (ReadsValid /\ artifact.current_iteration # last_iteration)
        => /\ StatusLineCount(Emitted) = 1
           /\ last_iteration' = artifact.current_iteration ]_vars

(***************************************************************************)
(* C2.  Every poll that reads a valid snapshot whose current_iteration     *)
(* equals last_iteration prints no line at all and leaves last_iteration   *)
(* as it was.                                                              *)
(***************************************************************************)
C2_SameIterationPrintsNothing ==
    [][ (ReadsValid /\ artifact.current_iteration = last_iteration)
        => /\ Emitted = <<>>
           /\ last_iteration' = last_iteration ]_vars

\* a silent poll has just ended on a snapshot of the iteration seen last
C2_Witness ==
    /\ pc = "sleep"
    /\ out = <<>>
    /\ Valid(artifact)
    /\ artifact.current_iteration = last_iteration

(***************************************************************************)
(* C3.  A poll that reads status "completed" ends the loop after a status  *)
(* line followed by the completion notice, and a poll that reads status    *)
(* "error" ends it after the failure notice, whatever last_iteration is.   *)
(* Stated for the snapshots without metrics and export file, on which      *)
(* lines 85-101 raise nothing.                                             *)
(***************************************************************************)
C3_TerminalStatusEndsLoop ==
    [][ (ReadsValid /\ NoEvalNoExport(artifact))
        => /\ artifact.status = "completed"
                => /\ pc' = "done"
                   /\ Len(Emitted) = 2
                   /\ Emitted[1].line = "status"
                   /\ Emitted[2] = CompletedLine
           /\ artifact.status = "error"
                => /\ pc' = "done"
                   /\ Emitted # <<>>
                   /\ Emitted[Len(Emitted)] = FailedLine ]_vars

(***************************************************************************)
(* C4.  Once the producer has left a valid snapshot with status            *)
(* "completed" or "error" for good, the loop ends, provided the monitor    *)
(* keeps polling and is not interrupted.  Stated for the snapshots without *)
(* metrics and export file.                                                *)
(***************************************************************************)
C4_TerminalArtifactEndsMonitor ==
    (producer_done /\ NoEvalNoExport(artifact)) ~> ~Running

C6_IncompleteLeavesLastIteration ==
    [][ /\ ReadsIncomplete => last_iteration' = last_iteration
        /\ last_iteration' # last_iteration => StatusLineCount(Emitted) = 1 ]_vars

(***************************************************************************)
(* C7.  Every poll that reads a JSON object lacking a required key prints  *)
(* one notice naming a key the object lacks and goes on to the next poll,  *)
(* whether or not current_iteration equals last_iteration.                 *)
(***************************************************************************)
C7_IncompleteIsReported ==
    [][ ReadsIncomplete
        => /\ \E k \in artifact.missing : Emitted = <<MissingKeyLine(k)>>
           /\ pc' = "sleep" ]_vars

(***************************************************************************)
(* C8.  The loop ends in three ways only: a snapshot with status           *)
(* "completed" was read, one with status "error" was read, or the          *)
(* interrupt arrived.  No content of the artifact ends it otherwise.       *)
(* Stated for the contents that are text: nothing, malformed JSON, JSON    *)
(* that is no object, objects with or without their keys.                  *)
(***************************************************************************)
C8_OnlyThreeExits ==
    [][ (Running /\ ~Running' /\ artifact.kind # "undecodable")
        => \/ pc' = "stopped"
           \/ /\ pc' = "done"
              /\ artifact.kind = "object"
              /\ artifact.status \in {"completed", "error"} ]_vars

(***************************************************************************)
(* C9.  On a snapshot with status "completed" the completion notice is     *)
(* followed by the reference to export_path/current_export_file exactly    *)
(* when both keys hold a value; in every case the completion notice is     *)
(* printed and the loop ends at that poll.  Stated for the polls that      *)
(* render (the iteration changed) with both metrics null.                  *)
(***************************************************************************)
C9_CompletionNotice ==
    [][ ( /\ ReadsValid
          /\ artifact.status = "completed"
          /\ artifact.current_iteration # last_iteration
          /\ artifact.last_eval_psnr = "null"
          /\ artifact.last_eval_ssim = "null" )
        => /\ pc' = "done"
           /\ \E i \in 1..Len(Emitted) : Emitted[i] = CompletedLine
           /\ (\E i \in 1..Len(Emitted) : Emitted[i].line = "final_output")
                <=> ( /\ artifact.current_export_file = "value"
                      /\ artifact.export_path = "value" ) ]_vars

(***************************************************************************)
(* C10.  The status line carries the PSNR/SSIM segment exactly when        *)
(* last_eval_psnr and last_eval_ssim both hold a value; in the other       *)
(* cases the status line is printed without the segment and the loop goes  *)
(* on.  Stated for the polls that render a snapshot whose status is not    *)
(* terminal.                                                               *)
(***************************************************************************)
C10_MetricsSegment ==
    [][ ( /\ ReadsValid
          /\ artifact.current_iteration # last_iteration
          /\ artifact.status \notin {"completed", "error"} )
        => /\ pc' = "sleep"
           /\ Len(Emitted) = 1
           /\ Emitted[1].line = "status"
           /\ Emitted[1].metrics
                <=> ( /\ artifact.last_eval_psnr = "value"
                      /\ artifact.last_eval_ssim = "value" ) ]_vars

(***************************************************************************)
(* C11.  The interrupt can arrive wherever the loop stands (existence      *)
(* check, read and rendering, either sleep); it ends the loop at once and  *)
(* normally: the line "stopped by user" is printed once, as the last line, *)
(* the loop is left in the state "stopped" and not by an exception, and    *)
(* from then on last_iteration and the output change no more.  What a poll *)
(* printed and assigned before the interrupt cut it short stays.           *)
(***************************************************************************)
C11_InterruptStopsAtOnce ==
    [][ /\ Running => ENABLED Interrupt
        /\ Interrupt
            => /\ pc' = "stopped"
               /\ Emitted # <<>>
               /\ \A i \in 1..Len(Emitted) :
                    Emitted[i] = StoppedLine <=> i = Len(Emitted)
               /\ last_iteration' # last_iteration => pc = "open"
        /\ pc = "stopped" => /\ pc' = "stopped"
                             /\ out' = out
                             /\ last_iteration' = last_iteration ]_vars

\* the interrupt arrived in the sleep that follows a printed status line,
\* and the producer has written a newer snapshot since
C11_Witness ==
    /\ pc = "stopped"
    /\ Len(out) = 2
    /\ out[1].line = "status"
    /\ out[2] = StoppedLine
    /\ Valid(artifact)
    /\ artifact.current_iteration # last_iteration

(***************************************************************************)
(* C12.  A poll that reads a valid snapshot whose status is neither        *)
(* "completed" nor "error" does not end the loop: the monitor goes to the  *)
(* sleep of line 114 and polls again.                                      *)
(***************************************************************************)
C12_OtherStatusGoesOn ==
    [][ (ReadsValid /\ artifact.status \notin {"completed", "error"})
        => pc' = "sleep" ]_vars

(***************************************************************************)
(* C13.  Called with an interval that is zero or negative, the monitor     *)
(* performs no poll of the artifact and prints nothing: the existence      *)
(* check is never passed.                                                  *)
(***************************************************************************)
C13_NonPositiveIntervalRejected ==
    update_interval <= 0 =>
        /\ pc \notin {"open", "wait", "sleep", "done"}
        /\ \A i \in 1..Len(out) : out[i] = StoppedLine

(***************************************************************************)
(* C14.  A poll that passed the existence check and finds the file gone    *)
(* at line 58 prints one notice, leaves last_iteration as it was and goes  *)
(* to the sleep of line 114; that one sleep returns to the existence       *)
(* check.                                                                  *)
(***************************************************************************)
C14_VanishedIsRetried ==
    [][ /\ (ReadAndRender /\ artifact.kind = "absent")
            => /\ Emitted = <<DisappearedLine>>
               /\ last_iteration' = last_iteration
               /\ pc' = "sleep"
        /\ (Sleep /\ out = <<DisappearedLine>>)
            => /\ pc' = "exists"
               /\ sleeps' = 1
               /\ last_iteration' = last_iteration ]_vars

\* the file vanished between line 53 and line 58 and the poll has ended
C14_Witness ==
    /\ pc = "sleep"
    /\ out = <<DisappearedLine>>
    /\ artifact.kind = "absent"

(***************************************************************************)
(* C15.  format_duration renders a duration below 60 s in seconds, one     *)
(* from 60 s up to but excluding 3600 s in minutes, one of 3600 s or more  *)
(* in hours, each to one decimal (the nearest tenth of the unit);          *)
(* 59.9 gives "59.9s", 60.0 gives "1.0m" and 3600.0 gives "1.0h".          *)
(***************************************************************************)
C15_FormatDurationUnits ==
    formatted # NotCalled =>
        LET per == CASE formatted.unit = "s" -> 10
                     [] formatted.unit = "m" -> 600
                     [] OTHER -> 36000
            off == formatted.tenths * per - 10 * duration
        IN  /\ formatted.unit = "s" <=> duration < 600
            /\ formatted.unit = "m" <=> (600 <= duration /\ duration < 36000)
            /\ formatted.unit = "h" <=> 36000 <= duration
            /\ 2 * off <= per /\ -2 * off <= per
            /\ duration = 599 => formatted = [unit |-> "s", tenths |-> 599]
            /\ duration = 600 => formatted = [unit |-> "m", tenths |-> 10]
            /\ duration = 36000 => formatted = [unit |-> "h", tenths |-> 10]

\* format_duration(3600.0) has returned "1.0h"
C15_Witness ==
    /\ duration = 36000
    /\ formatted = [unit |-> "h", tenths |-> 10]

(***************************************************************************)
(* C16.  No step of the monitor (existence check, read and rendering,      *)
(* sleep, interrupt) changes what is at the path; the artifact changes     *)
(* only in steps of the producer, in which the monitor stands still.       *)
(***************************************************************************)
C16_MonitorLeavesArtifact ==
    [][ /\ (ExistsCheck \/ ReadAndRender \/ Sleep \/ Interrupt)
            => artifact' = artifact
        /\ artifact' # artifact
            => /\ ~producer_done
               /\ UNCHANGED <<last_iteration, pc, out, sleeps, printed>> ]_vars

\* the monitor has read a snapshot to its end and the snapshot is still there
C16_Witness ==
    /\ pc = "done"
    /\ out # <<>>
    /\ Valid(artifact)
    /\ artifact.current_iteration = last_iteration

(***************************************************************************)
(* C17.  Every poll that finds nothing at the path prints the one notice   *)
(* "waiting", leaves last_iteration as it was and sleeps; that one sleep   *)
(* returns to the existence check (one sleep in the loop iteration, not    *)
(* two), so the loop goes on as long as the artifact is absent.            *)
(***************************************************************************)
C17_AbsentIsAwaited ==
    [][ /\ (ExistsCheck /\ artifact.kind = "absent")
            => /\ Emitted = <<WaitingLine>>
               /\ last_iteration' = last_iteration
               /\ pc' = "wait"
        /\ (Sleep /\ pc = "wait")
            => /\ pc' = "exists"
               /\ sleeps' = 1
               /\ last_iteration' = last_iteration ]_vars

\* a poll later than the first found nothing at the path and now sleeps
C17_Witness ==
    /\ pc = "wait"
    /\ out = <<WaitingLine>>
    /\ last_iteration >= 0

(***************************************************************************)
(* C18.  With last_iteration still at the sentinel -1 a poll that reads a  *)
(* valid snapshot prints a status line, whatever its current_iteration;    *)
(* with metrics and current_export_file null the line has neither the      *)
(* metrics nor the export segment.                                         *)
(***************************************************************************)
C18_FirstSnapshotIsPrinted ==
    [][ (ReadsValid /\ last_iteration = -1)
        => /\ StatusLineCount(Emitted) = 1
           /\ ( /\ artifact.last_eval_psnr = "null"
                /\ artifact.last_eval_ssim = "null"
                /\ artifact.current_export_file = "null" )
                => /\ ~Emitted[1].metrics
                   /\ ~Emitted[1].export ]_vars

(***************************************************************************)
(* C19.  A poll that reads a valid snapshot whose current_iteration is     *)
(* lower than last_iteration prints a status line and sets last_iteration  *)
(* down to that value.                                                     *)
(***************************************************************************)
C19_LowerIterationIsPrinted ==
    [][ (ReadsValid /\ artifact.current_iteration < last_iteration)
        => /\ StatusLineCount(Emitted) = 1
           /\ last_iteration' = artifact.current_iteration ]_vars

(***************************************************************************)
(* C20.  No status line shows the current_iteration that the status line   *)
(* printed before it shows.                                                *)
(***************************************************************************)
C20_NoRepeatedStatusLine ==
    [][ \A i \in 1..Len(Emitted) :
            Emitted[i].line = "status" => Emitted[i].iter # printed ]_vars

====
